---- MODULE Spec2Model ----
(***************************************************************************)
(* The lexer (lex.cpp) and the recursive-descent parser (parser.cpp) of    *)
(* the interpreter front-end, as a state machine over one input stream.    *)
(* Characters are their ASCII codes, as in the C++ code (int ch).          *)
(***************************************************************************)
EXTENDS Integers, Sequences, FiniteSets, TLC

\* input: the characters of the standard input; pos: how many getchar() has
\* consumed; token: the global token (lex.cpp:16); toks: the tokens produced
\* by the driver's calls of getNextToken, in order; pc: position of the
\* parser call; ast: *expr_p (no node, or the root node); ret: the value a
\* parser function returned; op: *op of parseOperator; err: the message of a
\* raised Error
VARIABLES input, pos, token, toks, pc, ast, ret, op, err

vars == <<input, pos, token, toks, pc, ast, ret, op, err>>

(* ------------------------------ bounds --------------------------------- *)
\* longest input over the full alphabet
MaxLexLen == 3
\* longest input over the grammar's alphabet
MaxLen == 5
\* most calls of getNextToken the driver makes before it calls the parser
MaxCalls == 3

(* -------------------------- character codes ---------------------------- *)
Tab == 9
Newline == 10
Space == 32
Hash == 35
LParen == 40
RParen == 41
Star == 42
Plus == 43
Zero == 48
Nine == 57
TypeD == 68
TypeP == 80
\* what getchar() returns at end of input (ch < 0)
EndOfFile == -1

\* token classes of lex.hpp (not among the sources): tags distinct from every
\* character code 0..255, hence nonzero
EoF == 256
DIGIT == 257

\* the value of a field of a `new Expression` that no statement has written
Indet == -1000

LexAlphabet == {Tab, Newline, Space, LParen, RParen, Star, Plus, 47, Zero, Nine, 58, 120}
GrammarAlphabet == {Space, LParen, RParen, Plus, Star, 50}

SeqsUpTo(S, n) == UNION {[1..k -> S] : k \in 0..n}

Inputs == SeqsUpTo(LexAlphabet, MaxLexLen) \cup SeqsUpTo(GrammarAlphabet, MaxLen)

(* ------------------------------- lexer --------------------------------- *)
\* getchar() on the stream with p characters already consumed
getchar(p) == IF p < Len(input) THEN input[p + 1] ELSE EndOfFile

isWhitespace_NoTab(ch) == ch \in {Newline, Space}

isWhitespace(ch) ==
    CASE ch = Newline -> TRUE
      [] ch = Space -> TRUE
      [] ch = Tab -> TRUE
      [] OTHER -> FALSE

\* lines 30-35: the token of a non-whitespace character
classify(ch) ==
    [classType |-> IF Zero <= ch /\ ch <= Nine THEN DIGIT ELSE ch, repr |-> ch]

RECURSIVE getNextToken_NoConsume(_)
getNextToken_NoConsume(p) ==
    LET ch == getchar(p) IN
    IF ch < 0 THEN [token |-> [classType |-> EoF, repr |-> Hash], pos |-> p]
    ELSE IF isWhitespace(ch) THEN getNextToken_NoConsume(p + 1)
    ELSE [token |-> classify(ch), pos |-> p]

\* getNextToken() with p characters consumed: the new token and position
RECURSIVE getNextToken(_)
getNextToken(p) ==
    LET ch == getchar(p) IN
    IF ch < 0 THEN [token |-> [classType |-> EoF, repr |-> Hash], pos |-> p]
    ELSE IF isWhitespace(ch) THEN getNextToken(p + 1)
    ELSE [token |-> classify(ch), pos |-> p + 1]

(* ------------------------------- parser -------------------------------- *)
\* new Expression: no field is initialised; left/right <<>> = no child linked
newExpression ==
    [type |-> Indet, value |-> Indet, left |-> <<>>, right |-> <<>>,
     op |-> Indet, live |-> TRUE]

\* delete[] of a node allocated by new: the node is gone. The mismatch is
\* undefined behaviour, on a path no run takes (DIGIT is nonzero)
freeExpression(e) == [e EXCEPT !.live = FALSE]

\* Error(msg): the fatal, non-returning error of error.hpp
Error(msg, tok, p, e) ==
    [ret |-> Indet, expr |-> e, token |-> tok, pos |-> p, err |-> msg]

parseOperator_WrongStar(tok, p, o) ==
    IF tok.classType = Plus
    THEN LET n == getNextToken(p)
         IN [ret |-> 1, op |-> Plus, token |-> n.token, pos |-> n.pos]
    ELSE IF tok.classType = Star
    THEN LET n == getNextToken(p)
         IN [ret |-> 1, op |-> Plus, token |-> n.token, pos |-> n.pos]
    ELSE [ret |-> 0, op |-> o, token |-> tok, pos |-> p]

\* parseOperator(&o) with current token tok and p characters consumed
parseOperator(tok, p, o) ==
    IF tok.classType = Plus
    THEN LET n == getNextToken(p)
         IN [ret |-> 1, op |-> Plus, token |-> n.token, pos |-> n.pos]
    ELSE IF tok.classType = Star
    THEN LET n == getNextToken(p)
         IN [ret |-> 1, op |-> Star, token |-> n.token, pos |-> n.pos]
    ELSE [ret |-> 0, op |-> o, token |-> tok, pos |-> p]

digitNode_TypeP(e, tok) == [e EXCEPT !.type = TypeP, !.value = tok.repr - Zero]

\* lines 36-37: the node of the digit branch
digitNode(e, tok) == [e EXCEPT !.type = TypeD, !.value = tok.repr - Zero]

RECURSIVE parseExpression(_, _)
RECURSIVE parseExpressionBody(_, _, _)

\* lines 35-57, after `token.classType = DIGIT` has stored into the token:
\* tok is the token as stored, e the node allocated on line 33
parseExpressionBody(tok, p, e) ==
    IF tok.classType # 0
    THEN LET n == getNextToken(p)
         IN [ret |-> 1, expr |-> digitNode(e, tok), token |-> n.token,
             pos |-> n.pos, err |-> ""]
    ELSE IF tok.classType = LParen
    THEN LET e1 == [e EXCEPT !.type = TypeP]
             n == getNextToken(p)
             L == parseExpression(n.token, n.pos)
         IN IF L.err # "" THEN [L EXCEPT !.expr = e1]
            ELSE IF L.ret = 0
            THEN Error("Missing expression", L.token, L.pos, e1)
            ELSE LET e2 == [e1 EXCEPT !.left = <<L.expr>>]
                     O == parseOperator(L.token, L.pos, e2.op)
                 IN IF O.ret = 0
                    THEN Error("Missing operator", O.token, O.pos, e2)
                    ELSE LET e3 == [e2 EXCEPT !.op = O.op]
                             R == parseExpression(O.token, O.pos)
                         IN IF R.err # "" THEN [R EXCEPT !.expr = e3]
                            ELSE IF R.ret = 0
                            THEN Error("Missing expression", R.token, R.pos, e3)
                            ELSE IF R.token.classType # RParen
                            THEN Error("Missing right paranthesis", R.token, R.pos,
                                       [e3 EXCEPT !.right = <<R.expr>>])
                            ELSE LET m == getNextToken(R.pos)
                                 IN [ret |-> 1,
                                     expr |-> [e3 EXCEPT !.right = <<R.expr>>],
                                     token |-> m.token, pos |-> m.pos, err |-> ""]
    ELSE [ret |-> 0, expr |-> freeExpression(e), token |-> tok, pos |-> p,
          err |-> ""]

\* parseExpression(&expr): lines 33-35 allocate the node and store DIGIT into
\* the token's class (the condition is an assignment), then the body runs
parseExpression(tok, p) ==
    parseExpressionBody([tok EXCEPT !.classType = DIGIT], p, newExpression)

(* ------------------------------ actions -------------------------------- *)
Init ==
    /\ input \in Inputs
    /\ pos = 0
    /\ token = [classType |-> 0, repr |-> 0]
    /\ toks = <<>>
    /\ pc = "idle"
    /\ ast = <<>>
    /\ ret = Indet
    /\ op = Indet
    /\ err = ""

\* the driver calls getNextToken()
Advance ==
    /\ pc = "idle"
    /\ Len(toks) < MaxCalls
    /\ LET n == getNextToken(pos)
       IN /\ token' = n.token
          /\ pos' = n.pos
          /\ toks' = Append(toks, n.token)
    /\ UNCHANGED <<input, pc, ast, ret, op, err>>

\* the driver calls parseOperator(&op) on the current token
CallParseOperator ==
    /\ pc = "idle"
    /\ Len(toks) >= 1
    /\ LET r == parseOperator(token, pos, op)
       IN /\ ret' = r.ret
          /\ op' = r.op
          /\ token' = r.token
          /\ pos' = r.pos
    /\ pc' = "op_returned"
    /\ UNCHANGED <<input, toks, ast, err>>

\* parseExpression, lines 33-35: allocate *expr_p, evaluate the condition
PE_Entry ==
    /\ pc = "idle"
    /\ Len(toks) >= 1
    /\ ast' = <<newExpression>>
    /\ token' = [token EXCEPT !.classType = DIGIT]
    /\ pc' = "pe_35"
    /\ UNCHANGED <<input, pos, toks, ret, op, err>>

\* parseExpression, lines 35-57: the branch taken, to the return or the error
PE_Body ==
    /\ pc = "pe_35"
    /\ LET r == parseExpressionBody(token, pos, ast[1])
       IN /\ ast' = <<r.expr>>
          /\ ret' = r.ret
          /\ token' = r.token
          /\ pos' = r.pos
          /\ err' = r.err
          /\ pc' = IF r.err # "" THEN "fatal" ELSE "pe_returned"
    /\ UNCHANGED <<input, toks, op>>

Next == Advance \/ CallParseOperator \/ PE_Entry \/ PE_Body

Spec == Init /\ [][Next]_vars

(* ------------------- the grammar, read off the input ------------------- *)
Whitespace == {Space, Tab, Newline}

Last(s) == s[Len(s)]

\* the positions of the input's non-whitespace characters
NonWsIdx == {i \in 1..Len(input) : input[i] \notin Whitespace}

NTok == Cardinality(NonWsIdx)

\* the position of the k-th non-whitespace character
NthIdx(k) == CHOOSE i \in NonWsIdx : Cardinality({j \in NonWsIdx : j <= i}) = k

TokenOf(c) == [classType |-> IF c \in Zero..Nine THEN DIGIT ELSE c, repr |-> c]

EoFToken == [classType |-> EoF, repr |-> Hash]

\* the k-th token of the input, EndOfInput past its last character
ExpectedTok(k) == IF k <= NTok THEN TokenOf(input[NthIdx(k)]) ELSE EoFToken

\* the stream position once k tokens have been produced
PosAfter(k) == IF k = 0 THEN 0 ELSE IF k <= NTok THEN NthIdx(k) ELSE Len(input)

DigitAst(v) ==
    [type |-> TypeD, value |-> v, left |-> <<>>, right |-> <<>>,
     op |-> Indet, live |-> TRUE]

ParenAst(l, o, r) ==
    [type |-> TypeP, value |-> Indet, left |-> <<l>>, right |-> <<r>>,
     op |-> o, live |-> TRUE]

NoAst == DigitAst(Indet)

\* Expression := Digit | '(' Expression Operator Expression ')' from token k:
\* ok with the AST and the index of the token after it, nomatch, or fatal
RECURSIVE Grammar(_)
Grammar(k) ==
    LET t == ExpectedTok(k) IN
    IF t.classType = DIGIT
    THEN [kind |-> "ok", ast |-> DigitAst(t.repr - Zero), next |-> k + 1, msg |-> ""]
    ELSE IF t.classType # LParen
    THEN [kind |-> "nomatch", ast |-> NoAst, next |-> k, msg |-> ""]
    ELSE LET l == Grammar(k + 1) IN
         IF l.kind = "fatal" THEN l
         ELSE IF l.kind = "nomatch"
         THEN [kind |-> "fatal", ast |-> NoAst, next |-> l.next,
               msg |-> "Missing expression"]
         ELSE LET o == ExpectedTok(l.next).classType IN
              IF o \notin {Plus, Star}
              THEN [kind |-> "fatal", ast |-> NoAst, next |-> l.next,
                    msg |-> "Missing operator"]
              ELSE LET r == Grammar(l.next + 1) IN
                   IF r.kind = "fatal" THEN r
                   ELSE IF r.kind = "nomatch"
                   THEN [kind |-> "fatal", ast |-> NoAst, next |-> r.next,
                         msg |-> "Missing expression"]
                   ELSE IF ExpectedTok(r.next).classType # RParen
                   THEN [kind |-> "fatal", ast |-> NoAst, next |-> r.next,
                         msg |-> "Missing right parenthesis"]
                   ELSE [kind |-> "ok", ast |-> ParenAst(l.ast, o, r.ast),
                         next |-> r.next + 1, msg |-> ""]

\* parseExpression was called on the input's first token and has ended
TopLevelEnded == pc \in {"pe_returned", "fatal"} /\ Len(toks) = 1

\* parseExpression has ended, from whichever token it was called on
ParseEnded == pc \in {"pe_returned", "fatal"}

\* a strict binary tree: Digit nodes are leaves, Parenthesized nodes have two
\* complete children and an operator '+' or '*'
RECURSIVE WellShaped(_)
WellShaped(n) ==
    /\ n.live
    /\ n.type \in {TypeD, TypeP}
    /\ n.type = TypeD => n.left = <<>> /\ n.right = <<>>
    /\ n.type = TypeP =>
          /\ Len(n.left) = 1 /\ Len(n.right) = 1
          /\ n.op \in {Plus, Star}
          /\ WellShaped(n.left[1]) /\ WellShaped(n.right[1])

RECURSIVE DigitsInRange(_)
DigitsInRange(n) ==
    /\ n.type = TypeD => n.value \in 0..9
    /\ \A c \in {n.left, n.right} : c # <<>> => DigitsInRange(c[1])

(* ------------------------------- claims -------------------------------- *)

\* C1: a well-formed input parsed from its first token succeeds with the AST
\* that mirrors the nesting of its parentheses
C1_WellFormedMirrors ==
    (TopLevelEnded /\ Grammar(1).kind = "ok" /\ Grammar(1).next = NTok + 1)
        => (pc = "pe_returned" /\ ret = 1 /\ ast = <<Grammar(1).ast>>)

\* C2: after a consumed '(', the first absent piece raises its fatal error
\* and no AST is returned
C2_MissingPieceIsFatal ==
    (TopLevelEnded /\ ExpectedTok(1).classType = LParen /\ Grammar(1).kind = "fatal")
        => (pc = "fatal" /\ err = Grammar(1).msg)

\* C3: on a token that is neither Digit nor '(' parseExpression returns the
\* soft no-match: no error, no input consumed, no AST node
C3_NoMatchIsSoft ==
    (ParseEnded /\ Last(toks).classType \notin {DIGIT, LParen})
        => /\ pc = "pe_returned" /\ ret = 0 /\ err = ""
           /\ token = Last(toks) /\ pos = PosAfter(Len(toks))
           /\ ~ast[1].live

\* C4: a Digit node is built only from a Digit token and holds repr - '0',
\* a value in 0..9
C4_DigitValueInRange ==
    (pc = "pe_returned" /\ ret = 1)
        => /\ DigitsInRange(ast[1])
           /\ ast[1].type = TypeD =>
                 /\ Last(toks).classType = DIGIT
                 /\ ast[1].value = Last(toks).repr - Zero

\* C5: parseOperator on '+' or '*' advances by one token and returns that
\* operator; on any other token it fails and changes nothing
C5_ParseOperator ==
    [][(pc = "idle" /\ pc' = "op_returned") =>
          IF token.classType \in {Plus, Star}
          THEN /\ ret' = 1 /\ op' = token.classType
               /\ token' = ExpectedTok(Len(toks) + 1)
               /\ pos' = PosAfter(Len(toks) + 1)
          ELSE /\ ret' = 0 /\ op' = op /\ token' = token /\ pos' = pos]_vars

C5_Witness == pc = "op_returned" /\ ret = 1 /\ op = Star /\ token.classType = DIGIT

\* C6: one getNextToken skips spaces, tabs and newlines and classifies the
\* first other character: Digit for '0'..'9', else the character itself;
\* EndOfInput with repr '#' when the input runs out first
C6_AdvanceClassifies ==
    [][(pc = "idle" /\ pc' = "idle") =>
          LET rest == {i \in (pos + 1)..Len(input) : input[i] \notin Whitespace}
          IN IF rest = {}
             THEN token' = [classType |-> EoF, repr |-> Hash]
             ELSE LET c == input[CHOOSE i \in rest : \A j \in rest : i <= j]
                  IN /\ token'.repr = c
                     /\ token'.classType = IF c \in Zero..Nine THEN DIGIT ELSE c]_vars

C6_Witness ==
    /\ pc = "idle" /\ Len(toks) = 2
    /\ toks[2].classType = DIGIT /\ toks[2].repr = Zero
    /\ pos = 3 /\ input[2] = Tab

C8_ParserOnlyReadsToken ==
    [][token' # token => token' = getNextToken(pos).token]_vars

\* C9: each advance consumes the skipped whitespace and one character and
\* never goes back; the tokens produced are the input's non-whitespace
\* characters in order, then EndOfInput on every later call
C9_TokenSequence ==
    /\ [](/\ toks = [k \in 1..Len(toks) |-> ExpectedTok(k)]
          /\ pc = "idle" => pos = PosAfter(Len(toks)))
    /\ [][pos' >= pos]_vars

C9_Witness ==
    /\ pc = "idle" /\ Len(toks) = 3 /\ NTok = 1 /\ Len(input) = 3
    /\ toks[2].classType = EoF /\ toks[3].classType = EoF

\* C10: a successful top-level parseExpression has consumed exactly the
\* tokens of one expression, and the current token is the one after it
C10_ConsumesOneExpression ==
    (pc = "pe_returned" /\ ret = 1 /\ Len(toks) = 1)
        => /\ Grammar(1).kind = "ok"
           /\ token = ExpectedTok(Grammar(1).next)
           /\ pos = PosAfter(Grammar(1).next)

====
